---- MODULE Spec2Model ----
(***************************************************************************)
(* Mandelbrot plotter (src/Mandel/src/main.rs): argument parsing, the      *)
(* partition of the pixel buffer into bands, the scoped band tasks, the    *)
(* geometry mapper pixel_to_point and the escape-time evaluator, with the  *)
(* program's f64 arithmetic modelled bit for bit (IEEE 754 binary64,       *)
(* round to nearest, ties to even).                                        *)
(***************************************************************************)
EXTENDS Integers, Sequences, FiniteSets, TLC

(***************************************************************************)
(* PART 1.  f64.                                                           *)
(*                                                                         *)
(* A float is a record [k, s, m, e]:                                       *)
(*   k = "fin": the value s * M * 2^e, where s \in {-1,0,1} and M is the   *)
(*              integer whose base-2^14 digits, least significant first,   *)
(*              are m[1..4]; canonical: M = 0 (and s = 0, e = 0), or       *)
(*              2^52 <= M < 2^53, or e = EMin and 0 < M < 2^52 (subnormal) *)
(*   k = "inf": s * infinity;   k = "nan": not a number.                   *)
(* The two zeros of f64 compare equal and are one value here.  Exact       *)
(* intermediate results are "wide" numbers: tuples of 8 base-2^14 digits   *)
(* (112 bits), least significant first.                                    *)
(***************************************************************************)
Prec == 53
EMin == -1074
EMax == 971

LimbBits == 7 + 7
Base == 2^LimbBits
W == 0..7

Max(a, b) == IF a >= b THEN a ELSE b
Min(a, b) == IF a <= b THEN a ELSE b

\* F applied to the value of v (of v and w): LET, with v evaluated once.
Let1(v, F(_)) == CHOOSE r \in {F(x) : x \in {v}} : TRUE
Let2(v, w, F(_, _)) == CHOOSE r \in {F(x, y) : x \in {v}, y \in {w}} : TRUE

\* The wide number with digit i (0 the least significant) equal to F(i); the
\* digits are stored in a tuple, digit i at index i + 1.
Tab(F(_)) == <<F(0), F(1), F(2), F(3), F(4), F(5), F(6), F(7)>>
WZero == <<0, 0, 0, 0, 0, 0, 0, 0>>
WOne == <<1, 0, 0, 0, 0, 0, 0, 0>>
Limb(X, i) == IF i \in W THEN X[i + 1] ELSE 0
Widen(m) == <<m[1], m[2], m[3], m[4], 0, 0, 0, 0>>
Narrow(X) == <<X[1], X[2], X[3], X[4]>>
WFromNat(n) == <<n % Base, (n \div Base) % Base, n \div (Base * Base), 0, 0, 0, 0, 0>>

\* Digits (possibly out of range, possibly negative) brought back into 0..Base-1.
Carry(D) ==
  Let1(D, LAMBDA X :
    LET c1 == X[1] \div Base
        c2 == (X[2] + c1) \div Base
        c3 == (X[3] + c2) \div Base
        c4 == (X[4] + c3) \div Base
        c5 == (X[5] + c4) \div Base
        c6 == (X[6] + c5) \div Base
        c7 == (X[7] + c6) \div Base
    IN <<X[1] % Base, (X[2] + c1) % Base, (X[3] + c2) % Base, (X[4] + c3) % Base,
         (X[5] + c4) % Base, (X[6] + c5) % Base, (X[7] + c6) % Base,
         (X[8] + c7) % Base>>)

WAdd(X, Y) == Carry(Tab(LAMBDA i : Limb(X, i) + Limb(Y, i)))
\* X - Y for X >= Y
WSub(X, Y) == Carry(Tab(LAMBDA i : Limb(X, i) - Limb(Y, i)))
WGe(X, Y) ==
  LET d == {i \in W : Limb(X, i) # Limb(Y, i)}
  IN d = {} \/ (LET t == CHOOSE i \in d : \A j \in d : j <= i IN Limb(X, t) > Limb(Y, t))
\* The product of two numbers below 2^56 (digits 4..7 zero).
WMul(X, Y) ==
  Carry(Tab(LAMBDA i : X[1] * Limb(Y, i) + X[2] * Limb(Y, i - 1)
                        + X[3] * Limb(Y, i - 2) + X[4] * Limb(Y, i - 3)))
WShr(X, n) ==
  LET q == n \div LimbBits
      r == n % LimbBits
  IN Tab(LAMBDA i : (Limb(X, i + q) \div 2^r)
                    + (Limb(X, i + q + 1) % 2^r) * 2^(LimbBits - r))
WShl(X, n) ==
  LET q == n \div LimbBits
      r == n % LimbBits
  IN Tab(LAMBDA i : (Limb(X, i - q) % 2^(LimbBits - r)) * 2^r
                    + (Limb(X, i - q - 1) \div 2^(LimbBits - r)))
WBit(X, i) == (Limb(X, i \div LimbBits) \div 2^(i % LimbBits)) % 2
\* every bit of X below bit n is 0
WLowZero(X, n) ==
  /\ \A i \in W : i < n \div LimbBits => Limb(X, i) = 0
  /\ Limb(X, n \div LimbBits) % 2^(n % LimbBits) = 0
\* the number of bits of X # 0
BitLen(X) ==
  Let1(CHOOSE i \in W : Limb(X, i) # 0 /\ \A j \in W : j > i => Limb(X, j) = 0,
       LAMBDA t : LimbBits * t
                  + (CHOOSE n \in 1..LimbBits : 2^(n - 1) <= Limb(X, t) /\ Limb(X, t) < 2^n))

Zero == [k |-> "fin", s |-> 0, m |-> <<0, 0, 0, 0>>, e |-> 0]
Inf(s) == [k |-> "inf", s |-> s, m |-> <<0, 0, 0, 0>>, e |-> 0]
NaN == [k |-> "nan", s |-> 0, m |-> <<0, 0, 0, 0>>, e |-> 0]
Pack(s, X, e) ==
  IF X = WZero THEN Zero
  ELSE IF e > EMax THEN Inf(s)
  ELSE [k |-> "fin", s |-> s, m |-> Narrow(X), e |-> e]

\* The f64 nearest to s * X * 2^e (a little more when sticky), ties to even,
\* for a wide X.
RoundAt(s, X, e, sticky, L) ==
  LET n == Max(L - Prec, EMin - e)
  IN IF n <= 0
     THEN LET sh == Min(Prec - L, e - EMin)
          IN Let1(WShl(X, sh), LAMBDA m : Pack(s, m, e - sh))
     ELSE Let1(WShr(X, n), LAMBDA q :
            LET guard == WBit(X, n - 1) = 1
                rest == sticky \/ ~WLowZero(X, n - 1)
                up == guard /\ (rest \/ q[1] % 2 = 1)
            IN Let1(IF up THEN WAdd(q, WOne) ELSE q, LAMBDA r :
                 IF r = WShl(WOne, Prec)
                 THEN Pack(s, WShl(WOne, Prec - 1), e + n + 1)
                 ELSE Pack(s, r, e + n)))
Round(s, X, e, sticky) ==
  Let1(X, LAMBDA x :
    IF x = WZero THEN Zero
    ELSE Let2(BitLen(x), e, LAMBDA L, ex : RoundAt(s, x, ex, sticky, L)))

\* usize as f64, for n < 2^31
FromNat(n) == Round(1, WFromNat(n), 0, FALSE)
\* s * n * 2^e, for n < 2^31
Dyadic(s, n, e) == Round(s, WFromNat(n), e, FALSE)

FNeg(a) == Let1(a, LAMBDA x : [x EXCEPT !.s = 0 - x.s])

FAddV(a, b) ==
  IF a.k = "nan" \/ b.k = "nan" THEN NaN
  ELSE IF a.k = "inf" THEN (IF b.k = "inf" /\ b.s # a.s THEN NaN ELSE a)
  ELSE IF b.k = "inf" THEN b
  ELSE IF a.s = 0 THEN b
  ELSE IF b.s = 0 THEN a
  ELSE
    LET hi == IF a.e >= b.e THEN a ELSE b
        lo == IF a.e >= b.e THEN b ELSE a
        d == hi.e - lo.e
    IN IF d > 58 THEN hi
       ELSE Let2(WShl(Widen(hi.m), d), Widen(lo.m), LAMBDA X, Y :
              IF hi.s = lo.s THEN Round(hi.s, WAdd(X, Y), lo.e, FALSE)
              ELSE IF X = Y THEN Zero
              ELSE IF WGe(X, Y) THEN Round(hi.s, WSub(X, Y), lo.e, FALSE)
              ELSE Round(lo.s, WSub(Y, X), lo.e, FALSE))
FAdd(a, b) == Let2(a, b, LAMBDA x, y : FAddV(x, y))

FSub(a, b) == FAdd(a, FNeg(b))

FMulV(a, b) ==
  IF a.k = "nan" \/ b.k = "nan" THEN NaN
  ELSE IF a.k = "inf" \/ b.k = "inf"
       THEN (IF a.s = 0 \/ b.s = 0 THEN NaN ELSE Inf(a.s * b.s))
  ELSE IF a.s = 0 \/ b.s = 0 THEN Zero
  ELSE Round(a.s * b.s, WMul(Widen(a.m), Widen(b.m)), a.e + b.e, FALSE)
FMul(a, b) == Let2(a, b, LAMBDA x, y : FMulV(x, y))

\* Long division in base 2^14.  For R < D and 2^52 <= D < 2^53, the next
\* quotient digit floor(R * Base / D) and the remainder left, as <<digit, rest>>:
\* the digit is first estimated from below out of the leading bits, then
\* corrected.
RECURSIVE DivFix(_, _, _)
DivFix(q, R, D) ==
  IF WGe(R, D) THEN Let1(WSub(R, D), LAMBDA R2 : DivFix(q + 1, R2, D)) ELSE <<q, R>>
DivDigit(R, D) ==
  LET rh == (Limb(R, 1) \div 2^10) + Limb(R, 2) * 2^4 + Limb(R, 3) * 2^18
      dh == (Limb(D, 2) \div 2^10) + Limb(D, 3) * 2^4
  IN Let1(rh \div (dh + 1), LAMBDA q :
       Let2(WShl(R, LimbBits), Carry(Tab(LAMBDA i : q * Limb(D, i))), LAMBDA RS, qD :
         Let1(WSub(RS, qD), LAMBDA R1 : DivFix(q, R1, D))))
\* floor(N * 2^56 / D) and whether the division left a remainder, for
\* 2^52 <= N, D < 2^53.
DivWide(N, D) ==
  Let1(IF WGe(N, D) THEN <<1, WSub(N, D)>> ELSE <<0, N>>, LAMBDA d0 :
    Let1(DivDigit(d0[2], D), LAMBDA d1 :
      Let1(DivDigit(d1[2], D), LAMBDA d2 :
        Let1(DivDigit(d2[2], D), LAMBDA d3 :
          Let1(DivDigit(d3[2], D), LAMBDA d4 :
            <<(<<d4[1], d3[1], d2[1], d1[1], d0[1], 0, 0, 0>>), d4[2] # WZero>>)))))

FDivV(a, b) ==
  IF a.k = "nan" \/ b.k = "nan" THEN NaN
  ELSE IF a.k = "inf" THEN (IF b.k = "inf" THEN NaN
                            ELSE Inf(IF b.s = 0 THEN a.s ELSE a.s * b.s))
  ELSE IF b.k = "inf" THEN Zero
  ELSE IF b.s = 0 THEN (IF a.s = 0 THEN NaN ELSE Inf(a.s))
  ELSE IF a.s = 0 THEN Zero
  ELSE
    Let2(Prec - BitLen(Widen(a.m)), Prec - BitLen(Widen(b.m)), LAMBDA sa, sb :
      Let2(WShl(Widen(a.m), sa), WShl(Widen(b.m), sb), LAMBDA N, D :
        Let1(DivWide(N, D), LAMBDA qs :
          Round(a.s * b.s, qs[1], (a.e - sa) - (b.e - sb) - 4 * LimbBits, qs[2]))))
FDiv(a, b) == Let2(a, b, LAMBDA x, y : FDivV(x, y))

\* a > b
FGtV(a, b) ==
  IF a.k = "nan" \/ b.k = "nan" THEN FALSE
  ELSE IF a.s # b.s THEN a.s > b.s
  ELSE IF a.s = 0 THEN FALSE
  ELSE LET magGt(x, y) ==
             IF x.k = "inf" THEN y.k # "inf"
             ELSE IF y.k = "inf" THEN FALSE
             ELSE x.e > y.e \/ (x.e = y.e /\ x.m # y.m /\ WGe(Widen(x.m), Widen(y.m)))
       IN IF a.s = 1 THEN magGt(a, b) ELSE magGt(b, a)
FGt(a, b) == Let2(a, b, LAMBDA x, y : FGtV(x, y))
\* a == b
FEq(a, b) == Let2(a, b, LAMBDA x, y : x.k # "nan" /\ y.k # "nan" /\ x = y)

(***************************************************************************)
(* PART 2.  Complex<f64> (the num crate) and the two pure functions.       *)
(***************************************************************************)
Complex(re, im) == [re |-> re, im |-> im]
CAdd(a, b) == Let2(a, b, LAMBDA x, y : Complex(FAdd(x.re, y.re), FAdd(x.im, y.im)))
CMul(a, b) ==
  Let2(a, b, LAMBDA x, y :
    Complex(FSub(FMul(x.re, y.re), FMul(x.im, y.im)),
            FAdd(FMul(x.re, y.im), FMul(x.im, y.re))))
norm_sqr(z) == Let1(z, LAMBDA x : FAdd(FMul(x.re, x.re), FMul(x.im, x.im)))
CEq(a, b) == Let2(a, b, LAMBDA x, y : FEq(x.re, y.re) /\ FEq(x.im, y.im))

\* Option<T>
None == <<>>
Some(x) == <<x>>

Four == Dyadic(1, 4, 0)

\* pixel_to_point with the real part divided by the height.
pixel_to_point_by_height(bounds, pixel, upper_left, lower_right) ==
  Let2(upper_left, lower_right, LAMBDA ul, lr :
    Let2(FSub(lr.re, ul.re), FSub(ul.im, lr.im), LAMBDA width, height :
      Complex(FAdd(ul.re, FDiv(FMul(FromNat(pixel[1]), width), FromNat(bounds[2]))),
              FSub(ul.im, FDiv(FMul(FromNat(pixel[2]), height), FromNat(bounds[2]))))))

\* pixel_to_point: bounds and pixel are pairs of naturals.
pixel_to_point(bounds, pixel, upper_left, lower_right) ==
  Let2(upper_left, lower_right, LAMBDA ul, lr :
    Let2(FSub(lr.re, ul.re), FSub(ul.im, lr.im), LAMBDA width, height :
      Complex(FAdd(ul.re, FDiv(FMul(FromNat(pixel[1]), width), FromNat(bounds[1]))),
              FSub(ul.im, FDiv(FMul(FromNat(pixel[2]), height), FromNat(bounds[2]))))))

\* A pass that returns the count of the pass after the one that saw the escape.
EscapePassCountsOn(st, c) ==
  IF st[3] # "no" THEN st
  ELSE IF FGt(norm_sqr(st[2]), Four) THEN <<st[1], st[2], Some(st[1] + 1)>>
  ELSE <<st[1] + 1, CAdd(CMul(st[2], st[2]), c), "no">>

\* A pass whose test is |z|^2 >= 4.0.
EscapePassAtLeast(st, c) ==
  IF st[3] # "no" THEN st
  ELSE Let1(norm_sqr(st[2]), LAMBDA n :
         IF FGt(n, Four) \/ FEq(n, Four) THEN <<st[1], st[2], Some(st[1])>>
         ELSE <<st[1] + 1, CAdd(CMul(st[2], st[2]), c), "no">>)

\* A pass that updates z first and tests it afterwards.
EscapePassUpdateFirst(st, c) ==
  IF st[3] # "no" THEN st
  ELSE Let1(CAdd(CMul(st[2], st[2]), c), LAMBDA z :
         IF FGt(norm_sqr(z), Four) THEN <<st[1], z, Some(st[1])>>
         ELSE <<st[1] + 1, z, "no">>)

\* escape_time's loop state is <<i, z, ret>>: the loop variable, z, and the value
\* returned from inside the loop (Some(i)) or "no" while the loop runs.
\* EscapePass is one pass of the loop body (nothing once the function returned).
EscapePass(st, c) ==
  IF st[3] # "no" THEN st
  ELSE IF FGt(norm_sqr(st[2]), Four) THEN <<st[1], st[2], Some(st[1])>>
  ELSE <<st[1] + 1, CAdd(CMul(st[2], st[2]), c), "no">>
\* n passes, one after the other
RECURSIVE EscapePasses(_, _, _)
EscapePasses(n, st, c) ==
  IF n = 0 \/ st[3] # "no" THEN st
  ELSE IF n = 1 THEN EscapePass(st, c)
  ELSE Let1(EscapePasses(n \div 2, st, c), LAMBDA mid :
         EscapePasses(n - n \div 2, mid, c))
escape_time(c, limit) ==
  Let1(c, LAMBDA cv :
    Let1(EscapePasses(limit, <<0, Complex(Zero, Zero), "no">>, cv), LAMBDA end :
      IF end[3] # "no" THEN end[3] ELSE None))

(***************************************************************************)
(* PART 3.  Parsing.  A string is a tuple of one-character strings.  The   *)
(* model's arguments are written with the characters 0-9 + - . , x and a;  *)
(* f64 literals with an exponent, "inf" and "nan" are outside it.          *)
(***************************************************************************)
Digits == <<"0", "1", "2", "3", "4", "5", "6", "7", "8", "9">>
IsDigit(c) == \E d \in 1..10 : Digits[d] = c
DigitVal(c) == (CHOOSE d \in 1..10 : Digits[d] = c) - 1
AllDigits(str) == \A j \in 1..Len(str) : IsDigit(str[j])
\* the number a string of digits writes
RECURSIVE NatOf(_)
NatOf(str) ==
  IF str = <<>> THEN 0
  ELSE 10 * NatOf(SubSeq(str, 1, Len(str) - 1)) + DigitVal(str[Len(str)])

\* str::rfind: the index of the last occurrence, 0 for None.
rfind(str, separator) ==
  IF \E j \in 1..Len(str) : str[j] = separator
  THEN CHOOSE j \in 1..Len(str) :
         str[j] = separator /\ \A l \in (j + 1)..Len(str) : str[l] # separator
  ELSE 0

\* str::find(separator): the 1-based position of the first separator, 0 for None
find(str, separator) ==
  IF \E j \in 1..Len(str) : str[j] = separator
  THEN CHOOSE j \in 1..Len(str) :
         str[j] = separator /\ \A l \in 1..(j - 1) : str[l] # separator
  ELSE 0

\* usize::from_str: an optional "+", then one digit or more; Ok as Some(n)
usize_from_str(str) ==
  LET body == IF str # <<>> /\ str[1] = "+" THEN Tail(str) ELSE str
  IN IF body # <<>> /\ AllDigits(body) THEN Some(NatOf(body)) ELSE None

\* f64::from_str on [+-]digits[.digits] with a digit on one side of the point
\* at least: the f64 nearest to the decimal number written.
f64_from_str(str) ==
  LET signed == str # <<>> /\ str[1] \in {"+", "-"}
      sgn == IF str # <<>> /\ str[1] = "-" THEN -1 ELSE 1
      body == IF signed THEN Tail(str) ELSE str
      dot == find(body, ".")
      int == IF dot = 0 THEN body ELSE SubSeq(body, 1, dot - 1)
      frac == IF dot = 0 THEN <<>> ELSE SubSeq(body, dot + 1, Len(body))
  IN IF AllDigits(int) /\ AllDigits(frac) /\ Len(int) + Len(frac) > 0
     THEN Let1(FDiv(FromNat(NatOf(int \o frac)), FromNat(10^Len(frac))), LAMBDA q :
            Some(IF sgn = 1 THEN q ELSE FNeg(q)))
     ELSE None

\* T::from_str for the types parse_pair is used with: the unsigned integers
\* (numbers small enough not to overflow them) and f64
from_str(T, str) ==
  IF T \in {"usize", "u32"} THEN usize_from_str(str) ELSE f64_from_str(str)

\* parse_pair::<T>
parse_pair(str, separator, T) ==
  LET index == find(str, separator)
  IN IF index = 0 THEN None
     ELSE Let2(from_str(T, SubSeq(str, 1, index - 1)),
               from_str(T, SubSeq(str, index + 1, Len(str))),
               LAMBDA l, r : IF l # None /\ r # None THEN Some(<<l[1], r[1]>>) ELSE None)

parse_complex(str) ==
  Let1(parse_pair(str, ",", "f64"), LAMBDA pair :
    IF pair # None THEN Some(Complex(pair[1][1], pair[1][2])) ELSE None)

(***************************************************************************)
(* PART 4.  The dispatcher's arithmetic and render's pixel rule.           *)
(***************************************************************************)
threads == 8
IterLimit == 255

\* The rows of a band without the one added row.
rows_per_band_floor(bnds, t) == bnds[2] \div t

\* main, line 30, for a worker count t
rows_per_band(bnds, t) == bnds[2] \div t + 1

\* chunks_exact_mut: the chunks of full size only, the remainder left out.
chunks_exact_mut(len, size) ==
  [i \in 1..(len \div size) |-> [start |-> (i - 1) * size, len |-> size]]

\* Chunks that each start on the last byte of the chunk before.
chunks_overlapping(len, size) ==
  [i \in 1..((len + size - 1) \div size) |->
     [start |-> Max(0, (i - 1) * size - 1), len |-> Min(size, len - (i - 1) * size)]]

\* slice::chunks_mut(size) over a buffer of len bytes, size > 0: the chunks in
\* order, each the view [start |-> first offset, len |-> length].
chunks_mut(len, size) ==
  [i \in 1..((len + size - 1) \div size) |->
     [start |-> (i - 1) * size, len |-> Min(size, len - (i - 1) * size)]]

\* The band's height taken to be rows_per_band, whatever the slice's length.
BandTaskNominalHeight(i, band, bnds, rpb, ul, lr) ==
  LET top == rpb * i
      height == rpb
  IN [band |-> band,
      top |-> top,
      height |-> height,
      bounds |-> <<bnds[1], height>>,
      upper_left |-> pixel_to_point(bnds, <<0, top>>, ul, lr),
      lower_right |-> pixel_to_point(bnds, <<bnds[1], top + height>>, ul, lr)]

\* What one pass of main's for loop hands to the task of band i (counted from
\* 0): top and height, and what the closure captures: the slice and the three
\* values computed at lines 39-41.
BandTask(i, band, bnds, rpb, ul, lr) ==
  LET top == rpb * i
      height == band.len \div bnds[1]
  IN [band |-> band,
      top |-> top,
      height |-> height,
      bounds |-> <<bnds[1], height>>,
      upper_left |-> pixel_to_point(bnds, <<0, top>>, ul, lr),
      lower_right |-> pixel_to_point(bnds, <<bnds[1], top + height>>, ul, lr)]

\* The count stored as it is, not subtracted from 255.
RenderByteCount(bnds, column, row, ul, lr) ==
  Let1(escape_time(pixel_to_point(bnds, <<column, row>>, ul, lr), IterLimit), LAMBDA t :
    IF t = None THEN 0 ELSE t[1] % 256)

\* render, lines 95-99: the byte written for pixel (column, row) of a band
RenderByte(bnds, column, row, ul, lr) ==
  Let1(escape_time(pixel_to_point(bnds, <<column, row>>, ul, lr), IterLimit), LAMBDA t :
    IF t = None THEN 0 ELSE 255 - (t[1] % 256))

\* The buffer main ends with when it dispatches with t workers and no task
\* fails: every band rendered whole.  (Tasks write disjoint slices, so the order
\* in which they run does not show.)
RenderAll(bnds, ul, lr, t) ==
  LET rpb == rows_per_band(bnds, t)
      size == rpb * bnds[1]
      len == bnds[1] * bnds[2]
      task(off) == BandTask(off \div size, chunks_mut(len, size)[off \div size + 1],
                            bnds, rpb, ul, lr)
      byte(off) == Let1(task(off), LAMBDA tk :
                     RenderByte(tk.bounds, (off % size) % bnds[1], (off % size) \div bnds[1],
                                tk.upper_left, tk.lower_right))
  IN [o \in 1..len |-> byte(o - 1)]

(***************************************************************************)
(* PART 5.  The program: main, the band tasks and the scope that joins     *)
(* them.                                                                   *)
(***************************************************************************)
\* the panics a band task may be made to suffer in one run
MaxFaults == 1

\* The command lines tried (argv without the program name).
ArgVectors ==
  { <<(<<"o">>), (<<"1", "x", "3">>), (<<"0", ",", "-", "1", ".", "0", "4">>),
      (<<"1", ",", "-", "2", ".", "4", "8">>)>>,
    <<(<<"o">>), (<<"2", "x", "2">>), (<<"0", ",", "1">>), (<<"4", ",", "-", "1">>)>>,
    <<(<<"o">>), (<<"1", "x", "8">>), (<<"1", ",", "2">>), (<<"2", ",", "-", "2">>)>>,
    <<(<<"o">>), (<<"0", "x", "2">>), (<<"0", ",", "1">>), (<<"4", ",", "-", "1">>)>>,
    <<(<<"o">>), (<<"2", "x", "0">>), (<<"0", ",", "1">>), (<<"4", ",", "-", "1">>)>>,
    <<(<<"o">>), (<<"2", "x">>), (<<"0", ",", "1">>), (<<"4", ",", "-", "1">>)>>,
    <<(<<"o">>), (<<"2", "x", "2">>), (<<"a", ",", "1">>), (<<"4", ",", "-", "1">>)>>,
    <<(<<"o">>), (<<"2", "x", "2">>), (<<"0", ",", "1">>), (<<"4", ",">>)>>,
    <<(<<"o">>), (<<"2", "x", "2">>)>> }

VARIABLES
  argv,         \* the command line
  pc,           \* main's next statement
  exit,         \* how the process ended: [code, msg], code "run" while it runs
  args,         \* None, or Some(Arguments)
  bounds,       \* None, or Some(<<width, height>>)
  upper_left,   \* None, or Some(Complex)
  lower_right,  \* None, or Some(Complex)
  pixels,       \* None, or Some(the buffer)
  bands,        \* None, or Some(the chunks collected at line 33)
  tasks,        \* the band tasks spawned so far, by band
  scope,        \* None, or Some(what crossbeam::scope returned)
  file,         \* None, or Some(what write_image put in the file)
  writes,       \* history: for each buffer offset, the tasks that wrote it, in order
  faults,       \* the task panics so far
  call          \* None while main runs; the call under way when escape_time is
                \* run by itself, one loop pass a step

vars == <<argv, pc, exit, args, bounds, upper_left, lower_right, pixels, bands,
          tasks, scope, file, writes, faults, call>>

Running(t) == t.st = "running"
Panic(msg) == [code |-> "panic", msg |-> msg]

\* the process as it starts, whatever its command line
Fresh ==
  /\ pc = "parse_args"
  /\ exit = [code |-> "run", msg |-> ""]
  /\ args = None /\ bounds = None /\ upper_left = None /\ lower_right = None
  /\ pixels = None /\ bands = None /\ scope = None /\ file = None
  /\ tasks = <<>> /\ writes = <<>> /\ faults = 0
  /\ call = None

Init == argv \in ArgVectors /\ Fresh

\* line 21, parse_args
ParseArgs ==
  /\ pc = "parse_args"
  /\ IF Len(argv) # 4
     THEN /\ exit' = [code |-> "exit1", msg |-> "usage"]
          /\ pc' = "exit"
          /\ args' = args
     ELSE /\ args' = Some([file |-> argv[1], pixels |-> argv[2],
                           upper_left |-> argv[3], lower_right |-> argv[4]])
          /\ pc' = "parse_bounds"
          /\ exit' = exit
  /\ UNCHANGED <<call, argv, bounds, upper_left, lower_right, pixels, bands, tasks,
                 scope, file, writes, faults>>

\* line 23
ParseBounds ==
  /\ pc = "parse_bounds"
  /\ LET r == parse_pair(args[1].pixels, "x", "usize")
     IN IF r = None
        THEN /\ exit' = Panic("error parsing image dimensions")
             /\ pc' = "exit"
             /\ bounds' = bounds
        ELSE /\ bounds' = r
             /\ pc' = "parse_ul"
             /\ exit' = exit
  /\ UNCHANGED <<call, argv, args, upper_left, lower_right, pixels, bands, tasks,
                 scope, file, writes, faults>>

\* line 24
ParseUpperLeft ==
  /\ pc = "parse_ul"
  /\ LET r == parse_complex(args[1].upper_left)
     IN IF r = None
        THEN /\ exit' = Panic("error parsing upper left corner point")
             /\ pc' = "exit"
             /\ upper_left' = upper_left
        ELSE /\ upper_left' = r
             /\ pc' = "parse_lr"
             /\ exit' = exit
  /\ UNCHANGED <<call, argv, args, bounds, lower_right, pixels, bands, tasks, scope,
                 file, writes, faults>>

\* A lower right corner that falls back to 0+0i when it does not parse.
ParseLowerRightOrDefault ==
  /\ pc = "parse_lr"
  /\ \E r \in {parse_complex(args[1].lower_right)} :
       lower_right' = IF r = None THEN Some(Complex(Zero, Zero)) ELSE r
  /\ pc' = "alloc"
  /\ UNCHANGED <<call, argv, exit, args, bounds, upper_left, pixels, bands, tasks,
                 scope, file, writes, faults>>

\* line 25
ParseLowerRight ==
  /\ pc = "parse_lr"
  /\ LET r == parse_complex(args[1].lower_right)
     IN IF r = None
        THEN /\ exit' = Panic("error parsing lower right corner point")
             /\ pc' = "exit"
             /\ lower_right' = lower_right
        ELSE /\ lower_right' = r
             /\ pc' = "alloc"
             /\ exit' = exit
  /\ UNCHANGED <<call, argv, args, bounds, upper_left, pixels, bands, tasks, scope,
                 file, writes, faults>>

\* line 27: vec![0; bounds.0 * bounds.1]
Alloc ==
  /\ pc = "alloc"
  /\ pixels' = Some([o \in 1..(bounds[1][1] * bounds[1][2]) |-> 0])
  /\ writes' = [o \in 1..(bounds[1][1] * bounds[1][2]) |-> <<>>]
  /\ pc' = "chunk"
  /\ UNCHANGED <<call, argv, exit, args, bounds, upper_left, lower_right, bands, tasks,
                 scope, file, faults>>

\* lines 29-33: chunks_mut panics on a chunk size of 0
Chunk ==
  /\ pc = "chunk"
  /\ LET size == rows_per_band(bounds[1], threads) * bounds[1][1]
     IN IF size = 0
        THEN /\ exit' = Panic("chunk size must be non-zero")
             /\ pc' = "exit"
             /\ bands' = bands
        ELSE /\ bands' = Some(chunks_mut(Len(pixels[1]), size))
             /\ pc' = "spawn"
             /\ exit' = exit
  /\ UNCHANGED <<call, argv, args, bounds, upper_left, lower_right, pixels, tasks,
                 scope, file, writes, faults>>

\* lines 36-45: one pass of the for loop spawns the next band's task; after the
\* last band the closure returns and the scope starts waiting.
Spawn ==
  /\ pc = "spawn"
  /\ IF Len(tasks) < Len(bands[1])
     THEN LET i == Len(tasks)
              t == BandTask(i, bands[1][i + 1], bounds[1],
                            rows_per_band(bounds[1], threads),
                            upper_left[1], lower_right[1])
          IN /\ tasks' = Append(tasks, [st |-> "running", cl |-> t, row |-> 0,
                                        column |-> 0, fault |-> ""])
             /\ pc' = pc
     ELSE /\ pc' = "join"
          /\ tasks' = tasks
  /\ UNCHANGED <<call, argv, exit, args, bounds, upper_left, lower_right, pixels,
                 bands, scope, file, writes, faults>>

\* A band task that takes its turn: it works once the tasks spawned before it
\* have ended.
RenderInTurn(i) ==
  /\ i \in 1..Len(tasks)
  /\ Running(tasks[i])
  /\ \A j \in 1..(i - 1) : ~Running(tasks[j])
  /\ LET t == tasks[i]
         w == t.cl.bounds[1]
         h == t.cl.bounds[2]
         idx == t.row * w + t.column
         last == t.row + 1 >= h /\ t.column + 1 >= w
     IN IF t.row = 0 /\ t.column = 0 /\ t.cl.band.len # w * h
        THEN /\ tasks' = [tasks EXCEPT ![i].st = "panicked", ![i].fault = "assert"]
             /\ UNCHANGED <<pixels, writes>>
        ELSE IF w = 0 \/ h = 0
        THEN /\ tasks' = [tasks EXCEPT ![i].st = "done"]
             /\ UNCHANGED <<pixels, writes>>
        ELSE IF idx >= t.cl.band.len
        THEN /\ tasks' = [tasks EXCEPT ![i].st = "panicked", ![i].fault = "index"]
             /\ UNCHANGED <<pixels, writes>>
        ELSE /\ pixels' = Some([pixels[1] EXCEPT ![t.cl.band.start + idx + 1] =
                                  RenderByte(t.cl.bounds, t.column, t.row,
                                             t.cl.upper_left, t.cl.lower_right)])
             /\ writes' = [writes EXCEPT ![t.cl.band.start + idx + 1] = Append(@, i)]
             /\ tasks' = [tasks EXCEPT
                            ![i].st = IF last THEN "done" ELSE "running",
                            ![i].column = IF t.column + 1 < w THEN t.column + 1 ELSE 0,
                            ![i].row = IF t.column + 1 < w THEN t.row ELSE t.row + 1]
  /\ UNCHANGED <<call, argv, pc, exit, args, bounds, upper_left, lower_right, bands,
                 scope, file, faults>>

\* render, lines 90-102, one pixel a step.  The first step checks the
\* assertion; a write past the end of the slice would panic; the step that
\* leaves the loops ends the task.
Render(i) ==
  /\ i \in 1..Len(tasks)
  /\ Running(tasks[i])
  /\ LET t == tasks[i]
         w == t.cl.bounds[1]
         h == t.cl.bounds[2]
         idx == t.row * w + t.column
         last == t.row + 1 >= h /\ t.column + 1 >= w
     IN IF t.row = 0 /\ t.column = 0 /\ t.cl.band.len # w * h
        THEN /\ tasks' = [tasks EXCEPT ![i].st = "panicked", ![i].fault = "assert"]
             /\ UNCHANGED <<pixels, writes>>
        ELSE IF w = 0 \/ h = 0
        THEN /\ tasks' = [tasks EXCEPT ![i].st = "done"]
             /\ UNCHANGED <<pixels, writes>>
        ELSE IF idx >= t.cl.band.len
        THEN /\ tasks' = [tasks EXCEPT ![i].st = "panicked", ![i].fault = "index"]
             /\ UNCHANGED <<pixels, writes>>
        ELSE /\ pixels' = Some([pixels[1] EXCEPT ![t.cl.band.start + idx + 1] =
                                  RenderByte(t.cl.bounds, t.column, t.row,
                                             t.cl.upper_left, t.cl.lower_right)])
             /\ writes' = [writes EXCEPT ![t.cl.band.start + idx + 1] = Append(@, i)]
             /\ tasks' = [tasks EXCEPT
                            ![i].st = IF last THEN "done" ELSE "running",
                            ![i].column = IF t.column + 1 < w THEN t.column + 1 ELSE 0,
                            ![i].row = IF t.column + 1 < w THEN t.row ELSE t.row + 1]
  /\ UNCHANGED <<call, argv, pc, exit, args, bounds, upper_left, lower_right, bands,
                 scope, file, faults>>

\* A running band task panics (a failure the program does not cause itself).
TaskPanic(i) ==
  /\ i \in 1..Len(tasks)
  /\ Running(tasks[i])
  /\ faults < MaxFaults
  /\ faults' = faults + 1
  /\ tasks' = [tasks EXCEPT ![i].st = "panicked", ![i].fault = "injected"]
  /\ UNCHANGED <<call, argv, pc, exit, args, bounds, upper_left, lower_right, pixels,
                 bands, scope, file, writes>>

\* A scope that returns when the closure has returned, without joining.
ScopeNoJoin ==
  /\ pc = "join"
  /\ scope' = Some(IF \E i \in 1..Len(tasks) : tasks[i].st = "panicked"
                   THEN "Err" ELSE "Ok")
  /\ pc' = "unwrap"
  /\ UNCHANGED <<call, argv, exit, args, bounds, upper_left, lower_right, pixels,
                 bands, tasks, file, writes, faults>>

\* crossbeam::scope, lines 35-47: once the closure has returned, the scope joins
\* every thread spawned in it and returns Err if one of them panicked.
ScopeJoin ==
  /\ pc = "join"
  /\ \A i \in 1..Len(tasks) : ~Running(tasks[i])
  /\ scope' = Some(IF \E i \in 1..Len(tasks) : tasks[i].st = "panicked"
                   THEN "Err" ELSE "Ok")
  /\ pc' = "unwrap"
  /\ UNCHANGED <<call, argv, exit, args, bounds, upper_left, lower_right, pixels,
                 bands, tasks, file, writes, faults>>

\* The scope's result dropped instead of unwrapped.
UnwrapIgnored ==
  /\ pc = "unwrap"
  /\ pc' = "write"
  /\ UNCHANGED <<call, argv, exit, args, bounds, upper_left, lower_right, pixels,
                 bands, tasks, scope, file, writes, faults>>

\* line 47: .unwrap()
Unwrap ==
  /\ pc = "unwrap"
  /\ IF scope[1] = "Ok"
     THEN pc' = "write" /\ exit' = exit
     ELSE pc' = "exit" /\ exit' = Panic("called Result::unwrap() on an Err value")
  /\ UNCHANGED <<call, argv, args, bounds, upper_left, lower_right, pixels, bands,
                 tasks, scope, file, writes, faults>>

\* line 50, write_image (lines 70-88): File::create fails, or the file is
\* created and the encoder writes it or fails.
WriteImage ==
  /\ pc = "write"
  /\ \E io \in {"ok", "create failed", "encode failed"} :
       /\ file' = IF io = "create failed" THEN None
                  ELSE Some([name |-> args[1].file,
                             image |-> IF io = "ok" THEN pixels[1] ELSE <<>>,
                             bounds |-> bounds[1],
                             complete |-> io = "ok"])
       /\ exit' = IF io = "ok" THEN [code |-> "ok", msg |-> ""]
                  ELSE Panic("error writing PNG file")
  /\ pc' = "exit"
  /\ UNCHANGED <<call, argv, args, bounds, upper_left, lower_right, pixels, bands,
                 tasks, scope, writes, faults>>

Next ==
  \/ ParseArgs \/ ParseBounds \/ ParseUpperLeft \/ ParseLowerRight
  \/ Alloc \/ Chunk \/ Spawn
  \/ \E i \in 1..threads : Render(i)
  \/ \E i \in 1..threads : TaskPanic(i)
  \/ ScopeJoin \/ Unwrap \/ WriteImage

Spec == Init /\ [][Next]_vars

(***************************************************************************)
(* PART 5b.  The program when no band task fails, under fair scheduling.   *)
(***************************************************************************)
\* Command lines with valid arguments: 2 bands of 1 row of 3 pixels, and 4
\* bands of 2 rows with a last band of 1 row.
LiveArgVectors ==
  { <<(<<"o">>), (<<"3", "x", "2">>), (<<"1", ",", "2">>), (<<"4", ",", "-", "2">>)>>,
    <<(<<"o">>), (<<"1", "x", "9">>), (<<"1", ",", "2">>), (<<"2", ",", "-", "2">>)>> }

InitLive == argv \in LiveArgVectors /\ Fresh

MainStep ==
  \/ ParseArgs \/ ParseBounds \/ ParseUpperLeft \/ ParseLowerRight
  \/ Alloc \/ Chunk \/ Spawn
  \/ ScopeJoin \/ Unwrap \/ WriteImage


\* The operating system runs every thread that can run, so the main thread
\* does not stop short of a step it can take, and the band tasks together do
\* not stop while one of them can step.  (Fairness to each task by itself is
\* stronger; the tasks end on their own, so this much is enough.)
TaskStep == \E i \in 1..threads : Render(i)

Fairness == WF_vars(MainStep) /\ WF_vars(TaskStep)

NextLive == MainStep \/ TaskStep

SpecLive == InitLive /\ [][NextLive]_vars /\ Fairness

(***************************************************************************)
(* PART 6.  The dispatcher by itself (main up to the end of the for loop,  *)
(* before any band task is scheduled), over more images and viewports.     *)
(***************************************************************************)
MaxW == 3
MaxH == 15

\* a natural below 100 as it is written
NatStr(n) ==
  IF n < 10 THEN <<Digits[n + 1]>>
  ELSE <<Digits[(n \div 10) + 1], Digits[(n % 10) + 1]>>

\* UPPERLEFT and LOWERRIGHT
Viewports ==
  { <<(<<"-", "2", ",", "0", ".", "0", "2">>),
      (<<"-", "1", ".", "2", ",", "-", "0", ".", "4", "8">>)>>,
    <<(<<"0", ",", "1">>), (<<"4", ",", "-", "1">>)>>,
    <<(<<"-", "1", ".", "2", ",", "0", ".", "3", "5">>), (<<"-", "1", ",", "0", ".", "2">>)>> }

BandArgs ==
  { <<(<<"o">>), NatStr(w) \o <<"x">> \o NatStr(h), v[1], v[2]>> :
      w \in 1..MaxW, h \in 1..MaxH, v \in Viewports }

InitBands == argv \in BandArgs /\ Fresh

NextBands ==
  \/ ParseArgs \/ ParseBounds \/ ParseUpperLeft \/ ParseLowerRight
  \/ Alloc \/ Chunk \/ Spawn

SpecBands == InitBands /\ [][NextBands]_vars

(***************************************************************************)
(* PART 7.  escape_time by itself, one loop pass a step.                   *)
(***************************************************************************)
MaxLimit == 6

\* k / 2
Half(k) == Dyadic(IF k < 0 THEN -1 ELSE 1, IF k < 0 THEN 0 - k ELSE k, -1)

Points ==
  {Complex(Half(a), Half(b)) : a \in {-5, -4, -2, 0, 1, 3}, b \in {-3, 0, 2}}
    \cup {Complex(NaN, Zero), Complex(Inf(1), Zero)}

\* main does not run
Idle ==
  /\ argv = <<>> /\ pc = "idle" /\ exit = [code |-> "run", msg |-> ""]
  /\ args = None /\ bounds = None /\ upper_left = None /\ lower_right = None
  /\ pixels = None /\ bands = None /\ scope = None /\ file = None
  /\ tasks = <<>> /\ writes = <<>> /\ faults = 0

\* line 115: st is the loop state, passes counts the passes made, ret is what
\* the call returned ("no" until it returns)
InitEscape ==
  /\ Idle
  /\ call \in {[c |-> c, limit |-> l, st |-> <<0, Complex(Zero, Zero), "no">>,
                passes |-> 0, ret |-> "no"] : c \in Points, l \in 0..MaxLimit}

\* lines 117-122: one pass of the for loop
EscapeLoop ==
  /\ call.ret = "no"
  /\ call.st[1] < call.limit
  /\ \E st \in {EscapePass(call.st, call.c)} :
       call' = [call EXCEPT !.st = st, !.passes = @ + 1, !.ret = st[3]]
  /\ UNCHANGED <<argv, pc, exit, args, bounds, upper_left, lower_right, pixels,
                 bands, tasks, scope, file, writes, faults>>

\* line 124: the range is exhausted
EscapeEnd ==
  /\ call.ret = "no"
  /\ call.st[1] >= call.limit
  /\ call' = [call EXCEPT !.ret = None]
  /\ UNCHANGED <<argv, pc, exit, args, bounds, upper_left, lower_right, pixels,
                 bands, tasks, scope, file, writes, faults>>

NextEscape == EscapeLoop \/ EscapeEnd

SpecEscape == InitEscape /\ [][NextEscape]_vars

(***************************************************************************)
(* PART 7b.  parse_pair and parse_complex by themselves, over every string *)
(* of at most MaxStr characters of ParseChars.                             *)
(***************************************************************************)
MaxStr == 4

ParseChars == {"1", ",", "x", "-", "."}

RECURSIVE Strings(_)
Strings(n) ==
  IF n = 0 THEN {<<>>}
  ELSE Let1(Strings(n - 1), LAMBDA S :
         S \cup {Append(t, ch) : t \in {u \in S : Len(u) = n - 1}, ch \in ParseChars})

\* the calls: parse_pair::<usize>(s, 'x') and parse_pair::<f64>(s, ',') as
\* main and parse_complex make them, parse_pair::<f64> with the separators
\* '-' and '.', which may also occur in a float, and parse_complex(s)
InitParse ==
  /\ Idle
  /\ \E str \in Strings(MaxStr) :
       call \in {[fn |-> "parse_pair", str |-> str, separator |-> "x", T |-> "usize", ret |-> "no"],
                 [fn |-> "parse_pair", str |-> str, separator |-> ",", T |-> "f64", ret |-> "no"],
                 [fn |-> "parse_pair", str |-> str, separator |-> "-", T |-> "f64", ret |-> "no"],
                 [fn |-> "parse_pair", str |-> str, separator |-> ".", T |-> "f64", ret |-> "no"],
                 [fn |-> "parse_complex", str |-> str, separator |-> ",", T |-> "f64", ret |-> "no"]}

\* lines 134-144
ParsePair ==
  /\ call.fn = "parse_pair" /\ call.ret = "no"
  /\ \E r \in {parse_pair(call.str, call.separator, call.T)} :
       call' = [call EXCEPT !.ret = r]
  /\ UNCHANGED <<argv, pc, exit, args, bounds, upper_left, lower_right, pixels,
                 bands, tasks, scope, file, writes, faults>>

\* lines 127-132
ParseComplex ==
  /\ call.fn = "parse_complex" /\ call.ret = "no"
  /\ \E r \in {parse_complex(call.str)} :
       call' = [call EXCEPT !.ret = r]
  /\ UNCHANGED <<argv, pc, exit, args, bounds, upper_left, lower_right, pixels,
                 bands, tasks, scope, file, writes, faults>>

NextParse == ParsePair \/ ParseComplex

SpecParse == InitParse /\ [][NextParse]_vars

(***************************************************************************)
(* PART 7c.  pixel_to_point by itself, at the pixels (0, 0) and (width,     *)
(* height), over viewports of ordinary, very large and very small floats.  *)
(***************************************************************************)
MaxPointW == 3
MaxPointH == 3

\* the f64 a decimal literal denotes
Lit(str) == f64_from_str(str)[1]

\* the largest finite f64
MaxFloat == [k |-> "fin", s |-> 1, m |-> <<Base - 1, Base - 1, Base - 1, 2047>>, e |-> EMax]

\* Pairs <<a, b>> of coordinates: a viewport takes one for the real axis
\* (upper_left.re = a, lower_right.re = b) and one for the imaginary axis
\* (lower_right.im = a, upper_left.im = b).  The last one is not ordered.
Intervals ==
  { <<Lit(<<"-", "2">>), Lit(<<"-", "1", ".", "2">>)>>,
    <<Lit(<<"-", "0", ".", "4", "8">>), Lit(<<"0", ".", "0", "2">>)>>,
    <<Lit(<<"0", ".", "2">>), Lit(<<"0", ".", "3", "5">>)>>,
    <<Zero, Dyadic(1, 4, 0)>>,
    <<Zero, Dyadic(1, 1, 1023)>>,
    <<Dyadic(-1, 1, 1023), Dyadic(1, 1, 1023)>>,
    <<Lit(<<"-", "1", ".", "2">>), Dyadic(1, 1, 1023)>>,
    <<Dyadic(1, 3, 970), MaxFloat>>,
    <<Dyadic(1, 1, -1074), Dyadic(1, 3, -1074)>>,
    <<Dyadic(1, 1, 0), Dyadic(-1, 1, 0)>> }

InitPoint ==
  /\ Idle
  /\ \E w \in 1..MaxPointW, h \in 1..MaxPointH, x \in Intervals, y \in Intervals :
       call \in {[fn |-> "pixel_to_point", bounds |-> <<w, h>>, pixel |-> px,
                  upper_left |-> Complex(x[1], y[2]),
                  lower_right |-> Complex(x[2], y[1]),
                  ret |-> None] : px \in {<<0, 0>>, <<w, h>>}}

\* lines 104-112; ret is None until the call returns, then Some(the point)
PixelToPoint ==
  /\ call.fn = "pixel_to_point" /\ call.ret = None
  /\ \E r \in {pixel_to_point(call.bounds, call.pixel, call.upper_left, call.lower_right)} :
       call' = [call EXCEPT !.ret = Some(r)]
  /\ UNCHANGED <<argv, pc, exit, args, bounds, upper_left, lower_right, pixels,
                 bands, tasks, scope, file, writes, faults>>

NextPoint == PixelToPoint

SpecPoint == InitPoint /\ [][NextPoint]_vars

(***************************************************************************)
(* PART 8.  The properties.                                                *)
(***************************************************************************)
\* the rows of the band of task i
BandRows(i) == tasks[i].cl.top .. (tasks[i].cl.top + tasks[i].cl.height - 1)

\* C1: once main has built its bands, their row ranges are pairwise disjoint
\* and their union is [0, height): every row of the image belongs to exactly
\* one band (image width >= 1, height >= 1).
C1_BandsPartitionRows ==
  /\ \A i, j \in 1..Len(tasks) : i # j => BandRows(i) \cap BandRows(j) = {}
  /\ pc = "join" =>
       /\ \A i \in 1..Len(tasks) : BandRows(i) \subseteq 0..(bounds[1][2] - 1)
       /\ \A r \in 0..(bounds[1][2] - 1) :
            Cardinality({i \in 1..Len(tasks) : r \in BandRows(i)}) = 1

\* C1 witness: all bands are built, and the last one is shorter than the first
C1_ShortLastBand ==
  /\ pc = "join"
  /\ Len(tasks) >= 2
  /\ tasks[Len(tasks)].cl.height < tasks[1].cl.height

\* C2: whatever the interleaving of the band tasks, every offset of the buffer
\* is written by one task only, and a task writes only offsets inside the slice
\* it was given, which is the band main collected for it.
C2_WritesStayInOwnBand ==
  \A o \in DOMAIN writes : \A k \in 1..Len(writes[o]) :
    LET i == writes[o][k]
        band == tasks[i].cl.band
    IN /\ writes[o][1] = i
       /\ band = bands[1][i]
       /\ o - 1 >= band.start
       /\ o - 1 < band.start + band.len

\* C2 witness: two tasks have both written a byte and both still run
C2_TwoTasksWriting ==
  \E o1, o2 \in DOMAIN writes :
    /\ writes[o1] # <<>> /\ writes[o2] # <<>>
    /\ writes[o1][1] # writes[o2][1]
    /\ Running(tasks[writes[o1][1]]) /\ Running(tasks[writes[o2][1]])

\* C3: once the scope has returned (with Ok or with Err), every band has been
\* spawned and no band task still runs; so none runs when main unwraps the
\* result, when it calls write_image, or after the file was written.
C3_ScopeWaitsForTasks ==
  (scope # None \/ pc \in {"unwrap", "write"} \/ file # None) =>
    /\ Len(tasks) = Len(bands[1])
    /\ \A i \in 1..Len(tasks) : ~Running(tasks[i])

\* C3 witness: the scope returned Err, and a task that did not fail had been
\* let run to its end
C3_ErrAfterAllEnded ==
  /\ scope = Some("Err")
  /\ \E i \in 1..Len(tasks) : tasks[i].st = "done"

\* C4: once a band task has panicked, write_image is not called and no file is
\* written; the scope returns Err and main ends in the panic of unwrap.
C4_TaskPanicFailsRender ==
  (\E i \in 1..Len(tasks) : tasks[i].st = "panicked") =>
    /\ file = None
    /\ pc # "write"
    /\ scope # None => scope = Some("Err")
    /\ pc = "exit" => exit = Panic("called Result::unwrap() on an Err value")

\* C4 witness: main has ended after a task panicked, with part of the image
\* rendered
C4_AbortedWithPartialImage ==
  /\ pc = "exit"
  /\ \E i \in 1..Len(tasks) : tasks[i].st = "panicked"
  /\ \E o \in DOMAIN writes : writes[o] # <<>>

\* C5: the buffer main hands to write_image (8 workers) is byte for byte the
\* buffer the same dispatch produces with 1 worker.
C5_OneWorkerSameBytes ==
  pc = "write" =>
    \A o \in 1..Len(pixels[1]) :
      pixels[1][o] = RenderAll(bounds[1], upper_left[1], lower_right[1], 1)[o]

\* |x - l| <= 2^-50 * max(|u|, |l|), for a finite x
FAbs(a) == [a EXCEPT !.s = IF a.s = 0 THEN 0 ELSE 1]
FMax(a, b) == IF FGt(a, b) THEN a ELSE b
Finite(a) == a.k = "fin"

\* x is finite and |x - l| <= 2^-50 * max(|l|, |u|)
Near(x, l, u) ==
  /\ Finite(x)
  /\ ~FGt(FMul(FAbs(FSub(x, l)), Dyadic(1, 1, 50)), FMax(FAbs(u), FAbs(l)))

\* the task spawned last
LastCl == tasks[Len(tasks)].cl
\* its corners (0, 0) and (width, h) through its own bounds and viewport
LocalUL == pixel_to_point(LastCl.bounds, <<0, 0>>, LastCl.upper_left, LastCl.lower_right)
LocalLR == pixel_to_point(LastCl.bounds, LastCl.bounds, LastCl.upper_left, LastCl.lower_right)
\* the pixels (0, top) and (width, top + h) through the full bounds and viewport
GlobalUL == pixel_to_point(bounds[1], <<0, LastCl.top>>, upper_left[1], lower_right[1])
GlobalLR ==
  pixel_to_point(bounds[1], <<bounds[1][1], LastCl.top + LastCl.height>>,
                 upper_left[1], lower_right[1])

\* C6: for the band just spawned (every band is, in turn), the band-local
\* corners (0, 0) and (width, h), mapped through the band's bounds and the
\* band's computed viewport, are the points of the global pixels (0, top) and
\* (width, top + h) mapped through the full bounds and viewport.
C6_BandCornersEqualGlobal ==
  tasks # <<>> => CEq(LocalUL, GlobalUL) /\ CEq(LocalLR, GlobalLR)

\* the viewport of the call is ordered as the claim asks
Ordered ==
  /\ FGt(call.lower_right.re, call.upper_left.re)
  /\ FGt(call.upper_left.im, call.lower_right.im)

\* C7 as claimed: for a viewport with upperLeft.re < lowerRight.re and
\* upperLeft.im > lowerRight.im, pixel (0, 0) maps to upper_left and pixel
\* (width, height) maps to lower_right, exactly.
C7_CornersExact ==
  (call.ret # None /\ Ordered) =>
    IF call.pixel = <<0, 0>> THEN CEq(call.ret[1], call.upper_left)
    ELSE CEq(call.ret[1], call.lower_right)

\* one coordinate of the amended C7: x is the mapped coordinate, ul and lr the
\* corners' coordinates, extent the f64 difference the function computes and
\* n the bound (width or height) of that axis
CornerUpToRounding(x, ul, lr, extent, n) ==
  IF call.pixel = <<0, 0>>
  THEN /\ Finite(extent) => FEq(x, ul)
       /\ ~Finite(extent) => x.k = "nan"
  ELSE /\ Finite(x) => Near(x, lr, ul)
       /\ ~Finite(FMul(FromNat(n), extent)) => x.k = "inf"

\* C7 amended: for a finite ordered viewport, in each coordinate: pixel (0, 0)
\* maps to upper_left exactly when the extent computed in f64 is finite (and to
\* NaN when it overflows); pixel (width, height) maps to lower_right up to
\* rounding: a finite result is within 2^-50 times the larger magnitude of the
\* two corners' coordinates, and the result is infinite when the extent times
\* the width (the height) overflows.
C7_CornersUpToRounding ==
  (call.ret # None /\ Ordered) =>
    /\ CornerUpToRounding(call.ret[1].re, call.upper_left.re, call.lower_right.re,
                          FSub(call.lower_right.re, call.upper_left.re), call.bounds[1])
    /\ CornerUpToRounding(call.ret[1].im, call.upper_left.im, call.lower_right.im,
                          FSub(call.upper_left.im, call.lower_right.im), call.bounds[2])

\* C7 witness: pixel (width, height) was mapped to a finite point that is not
\* lower_right
C7_FarCornerRounds ==
  /\ call.ret # None /\ Ordered
  /\ call.pixel = call.bounds
  /\ Finite(call.ret[1].re) /\ Finite(call.ret[1].im)
  /\ ~CEq(call.ret[1], call.lower_right)

\* C8: escape_time makes at most limit passes of its loop, after limit passes
\* only the return is left, and it returns None or Some(i) with 0 <= i < limit
\* (the value the function computes in one go).
C8_EscapeTimeBounded ==
  /\ call.passes <= call.limit
  /\ (call.ret = "no" /\ call.passes = call.limit) => call.st[1] = call.limit
  /\ call.ret # "no" =>
       /\ call.ret = None \/ (Len(call.ret) = 1 /\ call.ret[1] \in 0..(call.limit - 1))
       /\ call.ret = escape_time(call.c, call.limit)

\* C8 witness: the escape was seen in the last pass the limit allows
C8_EscapeInLastPass ==
  /\ call.ret # "no"
  /\ call.limit >= 3
  /\ call.passes = call.limit
  /\ call.ret = Some(call.limit - 1)

\* |c|^2 > 4, as escape_time computes it
Far(c) == FGt(norm_sqr(c), Four)

\* C9 as claimed: for |c| > 2 and a positive limit, escape_time returns Some(0).
C9_FarPointGivesZero ==
  (call.ret # "no" /\ Far(call.c) /\ call.limit > 0) => call.ret = Some(0)

\* C9 amended: for a point whose norm_sqr exceeds 4.0, escape_time returns
\* Some(1) when limit >= 2 and None when limit = 1: the first pass tests z = 0,
\* the second sees z = c.
C9_FarPointGivesOne ==
  (call.ret # "no" /\ Far(call.c) /\ call.limit > 0) =>
    call.ret = IF call.limit >= 2 THEN Some(1) ELSE None

\* C9 witness: a call with |c| > 2 has returned Some(1)
C9_FarPointReturned ==
  /\ call.ret # "no"
  /\ Far(call.c)
  /\ call.ret = Some(1)

\* the PIXELS argument parses to a width or a height of 0
ZeroDims ==
  /\ args # None
  /\ \E d \in {parse_pair(args[1].pixels, "x", "usize")} :
       d # None /\ (d[1][1] = 0 \/ d[1][2] = 0)

\* C10: with a PIXELS argument of width or height 0, main goes no further than
\* parsing the dimensions and ends in the dimension parse error: no buffer is
\* allocated, no band is created, no task is spawned.
C10_ZeroDimsRejected ==
  ZeroDims =>
    /\ pc \in {"parse_bounds", "exit"}
    /\ pc = "exit" => exit = Panic("error parsing image dimensions")
    /\ pixels = None /\ bands = None /\ tasks = <<>>

\* one of PIXELS, UPPERLEFT, LOWERRIGHT does not parse
ParseFails ==
  /\ args # None
  /\ \/ parse_pair(args[1].pixels, "x", "usize") = None
     \/ parse_complex(args[1].upper_left) = None
     \/ parse_complex(args[1].lower_right) = None

\* C11: when PIXELS, UPPERLEFT or LOWERRIGHT does not parse, main never gets
\* to spawn a band task or to write_image: no task exists, no file is written,
\* and main ends in a panic with one of the three parse messages.
C11_ParseFailureWritesNothing ==
  ParseFails =>
    /\ tasks = <<>> /\ bands = None /\ scope = None /\ file = None
    /\ pc \in {"parse_bounds", "parse_ul", "parse_lr", "exit"}
    /\ pc = "exit" =>
         /\ exit.code = "panic"
         /\ exit.msg \in {"error parsing image dimensions",
                          "error parsing upper left corner point",
                          "error parsing lower right corner point"}

\* C11 witness: main has ended on a LOWERRIGHT that does not parse, after
\* PIXELS and UPPERLEFT parsed
C11_LowerRightRejected ==
  /\ pc = "exit"
  /\ bounds # None /\ upper_left # None
  /\ exit = Panic("error parsing lower right corner point")

\* the point render maps buffer offset o (from 1) to, in the band of task i
PointAt(i, o) ==
  LET cl == tasks[i].cl
      idx == o - 1 - cl.band.start
  IN pixel_to_point(cl.bounds, <<idx % cl.bounds[1], idx \div cl.bounds[1]>>,
                    cl.upper_left, cl.lower_right)

\* C12: every byte a band task has written is 0 when escape_time(point, 255)
\* is None, and otherwise 255 - count with count at most 254 (the cast to u8
\* loses nothing), so it lies in 1..255.
C12_ByteRule ==
  \A o \in DOMAIN writes :
    writes[o] # <<>> =>
      \E t \in {escape_time(PointAt(writes[o][1], o), IterLimit)} :
        IF t = None THEN pixels[1][o] = 0
        ELSE /\ t[1] <= 254
             /\ pixels[1][o] = 255 - t[1]
             /\ pixels[1][o] \in 1..255

\* C12 witness: one byte was written for a point that never escaped and one
\* for a point that did
C12_BothKindsWritten ==
  /\ pixels # None
  /\ \E o1, o2 \in DOMAIN writes :
       /\ writes[o1] # <<>> /\ pixels[1][o1] = 0
       /\ writes[o2] # <<>> /\ pixels[1][o2] > 0

\* the places of the separator in the string of the call
SepAt == {j \in 1..Len(call.str) : call.str[j] = call.separator}

\* the text before and the text after the first separator, each read as a T
LeftOperand ==
  from_str(call.T, SubSeq(call.str, 1, (CHOOSE j \in SepAt : \A l \in SepAt : j <= l) - 1))

RightOperand ==
  from_str(call.T, SubSeq(call.str, (CHOOSE j \in SepAt : \A l \in SepAt : j <= l) + 1,
                          Len(call.str)))

\* C13: parse_pair(s, sep) is Some((l, r)) exactly when s holds sep and the
\* text before its first occurrence parses as l and the text after it as r,
\* and None otherwise (empty string, no separator, an operand missing);
\* parse_complex(s) is Some(l + r i) under the same condition with ',' and f64.
C13_ParsePairExact ==
  call.ret # "no" =>
    IF SepAt = {} THEN call.ret = None
    ELSE \E l \in {LeftOperand}, r \in {RightOperand} :
           /\ (l = None \/ r = None) => call.ret = None
           /\ (l # None /\ r # None) =>
                call.ret = IF call.fn = "parse_pair" THEN Some(<<l[1], r[1]>>)
                           ELSE Some(Complex(l[1], r[1]))
           /\ (\E j \in SepAt : j \in {1, Len(call.str)} /\ Cardinality(SepAt) = 1)
                => call.ret = None

\* C13 witness: a pair was returned for a string that holds the separator
\* twice, split at the first
C13_SplitAtFirstOfTwo ==
  /\ pc = "idle" /\ call.fn = "parse_pair"
  /\ call.ret # "no" /\ call.ret # None
  /\ Cardinality(SepAt) = 2

\* the iterates z_0 = 0, z_1 = c, ..., z_n of z -> z*z + c, as a sequence
\* (z_k is its element k + 1)
RECURSIVE Orbit(_, _)
Orbit(c, n) ==
  IF n = 0 THEN <<Complex(Zero, Zero)>>
  ELSE Let1(Orbit(c, n - 1), LAMBDA zs :
         Append(zs, CAdd(CMul(zs[n], zs[n]), c)))

\* |z|^2 <= 4.0 as f64 compares: not greater and not NaN
Within(z) == Let1(norm_sqr(z), LAMBDA n : n.k # "nan" /\ ~FGt(n, Four))

\* C14 as claimed: escape_time returns None only if none of the iterates
\* z_1 .. z_limit has |z_k|^2 > 4.
C14_NoneMeansNoIterateFar ==
  (call.ret # "no" /\ call.ret = None) =>
    \E zs \in {Orbit(call.c, call.limit)} :
      \A k \in 1..call.limit : ~Far(zs[k + 1])

\* C14 amended: escape_time returns None exactly when none of the iterates
\* z_0 .. z_(limit-1) has |z_k|^2 > 4; each pass tests z before updating it,
\* so z_limit, the result of the last update, is never tested.
C14_NoneMeansNoTestedIterateFar ==
  call.ret # "no" =>
    \E zs \in {Orbit(call.c, call.limit)} :
      (call.ret = None) <=> (\A k \in 0..(call.limit - 1) : ~Far(zs[k + 1]))

\* C14 witness: None was returned after two passes or more although the last
\* iterate is outside the circle
C14_LastIterateFarUntested ==
  /\ call.ret # "no" /\ call.ret = None
  /\ call.limit >= 2
  /\ Far(Orbit(call.c, call.limit)[call.limit + 1])

\* C15: when escape_time returns Some(i), i updates were applied from z = 0
\* before the test first saw |z|^2 > 4: |z_i|^2 > 4 and |z_k|^2 <= 4 for k < i.
C15_SomeIsFirstFarIterate ==
  (call.ret # "no" /\ call.ret # None) =>
    \E zs \in {Orbit(call.c, call.ret[1])} :
      /\ Far(zs[call.ret[1] + 1])
      /\ \A k \in 0..(call.ret[1] - 1) : Within(zs[k + 1])
      /\ call.st[2] = zs[call.ret[1] + 1]

\* C15 witness: Some(i) was returned after three updates or more
C15_EscapeAfterUpdates ==
  /\ call.ret # "no" /\ call.ret # None
  /\ call.ret[1] >= 3
  /\ call.passes = call.ret[1] + 1

\* C16: for a width and a height of 1 or more, when main comes to call
\* write_image the buffer still has width * height bytes and every offset
\* row * width + col was written exactly once, by one band task.
C16_EveryPixelWrittenOnce ==
  (pc = "write" /\ bounds[1][1] >= 1 /\ bounds[1][2] >= 1) =>
    /\ Len(pixels[1]) = bounds[1][1] * bounds[1][2]
    /\ DOMAIN writes = 1..(bounds[1][1] * bounds[1][2])
    /\ \A row \in 0..(bounds[1][2] - 1), col \in 0..(bounds[1][1] - 1) :
         /\ Len(writes[row * bounds[1][1] + col + 1]) = 1
         /\ writes[row * bounds[1][1] + col + 1][1] \in 1..Len(tasks)

\* C16 witness: main is about to call write_image on an image that four band
\* tasks rendered
C16_FourBandsRendered ==
  /\ pc = "write"
  /\ Len(tasks) = 4
  /\ Len(pixels[1]) = 8

\* the ceiling of a / b
Ceiling(a, b) == (a + b - 1) \div b

\* C17: for every height of 1 or more, rows_per_band = height / 8 + 1 is the
\* ceiling of height / 8 (seen in the bands main cut: the first band has
\* rows_per_band rows of width bytes).
C17_RowsPerBandIsCeiling ==
  (bands # None /\ bounds[1][2] >= 1) =>
    bands[1][1].len = Ceiling(bounds[1][2], threads) * bounds[1][1]

\* C18: every band main hands to render meets render's precondition: its
\* length is band_bounds.0 * band_bounds.1, a whole number of rows of the
\* image's width, and it has one row at least.
C18_BandsMeetRenderPrecondition ==
  \A i \in 1..Len(tasks) :
    LET cl == tasks[i].cl
    IN /\ cl.band.len = cl.bounds[1] * cl.bounds[2]
       /\ cl.bounds[1] = bounds[1][1]
       /\ cl.band.len % bounds[1][1] = 0
       /\ cl.bounds[2] >= 1
       /\ tasks[i].fault # "assert"

\* C18 witness: every band is handed out, the last a single row after bands
\* of two rows
C18_LastBandOfOneRow ==
  /\ pc = "join"
  /\ Len(tasks) >= 2
  /\ tasks[1].cl.bounds[2] = 2
  /\ tasks[Len(tasks)].cl.bounds[2] = 1
  /\ tasks[Len(tasks)].cl.band.len = bounds[1][1]

\* C19: for a width and a height of 1 or more, main spawns one band task at
\* least and never more than 8.
C19_TaskCountBounded ==
  /\ Len(tasks) <= threads
  /\ (bands # None /\ bounds[1][1] >= 1 /\ bounds[1][2] >= 1) =>
       /\ Len(bands[1]) \in 1..threads
       /\ pc \notin {"chunk", "spawn"} => Len(tasks) = Len(bands[1])

\* C19 witness: all 8 band tasks are spawned
C19_EightTasks ==
  /\ pc = "join"
  /\ Len(tasks) = threads

\* task i is spawned and has ended after writing every byte of its band
TaskFinished(i) ==
  IF i <= Len(tasks)
  THEN /\ tasks[i].st = "done"
       /\ \A o \in (tasks[i].cl.band.start + 1)..(tasks[i].cl.band.start + tasks[i].cl.band.len) :
            writes[o] = <<i>>
  ELSE FALSE

\* task i, if it is running, can take its next step now
CanStep(i) ==
  IF i <= Len(tasks) THEN Running(tasks[i]) => ENABLED Render(i) ELSE TRUE

\* the arguments are parsed, to a width and a height of 1 or more
ValidStart ==
  IF pc = "alloc" THEN bounds[1][1] >= 1 /\ bounds[1][2] >= 1 ELSE FALSE

\* main is about to call write_image: the scope has returned Ok, and every
\* band has its task, which has finished
AtWriteImage ==
  IF pc = "write"
  THEN /\ scope = Some("Ok")
       /\ Len(tasks) = Len(bands[1])
       /\ \A i \in 1..Len(tasks) : TaskFinished(i)
  ELSE FALSE

\* C20: with valid arguments and no task failure, under fair scheduling, a
\* running task can always take its step whatever the other tasks do, and
\* main comes to call write_image after the scope returned, with every band's
\* task spawned and ended having written each pixel of its band.
C20_RenderCompletes ==
  /\ [](\A i \in 1..threads : CanStep(i))
  /\ ValidStart ~> AtWriteImage

\* C20 witness: main has called write_image after the scope returned Ok for two
\* tasks or more, and ended
C20_ImageWritten ==
  /\ pc = "exit"
  /\ Len(tasks) >= 2
  /\ scope = Some("Ok")
  /\ file # None
====
